---- MODULE Spec2Model ----
(***************************************************************************)
(* A model of the audiomosh proxy server (the enhanced server with the     *)
(* response cache and the rate limiter): the two process-wide maps, the    *)
(* middleware chain of every route, the suspension points of the async     *)
(* handlers (await fetch, await response.json(), the piped download body), *)
(* and the wall clock the cache and the rate limiter read.                 *)
(***************************************************************************)
EXTENDS Integers, Sequences, FiniteSets, TLC

VARIABLES
  now,        \* Date.now(), in milliseconds
  env,        \* which API keys the environment configures
  cache,      \* the Map `cache`: key -> [data, timestamp]
  rateLimit,  \* the Map `rateLimit`: client ip -> [count, resetTime]
  flight,     \* the requests to the rate-limited routes, by order of arrival
  resp,       \* the request that arrived or was answered in the step just taken
  running,    \* the node process is alive
  seen,       \* history: per client, requests since its current window was opened
  issued,     \* history: per search request line, the latest admitted request
              \*   since the last clear
  answered,   \* history: per search request line, the latest answer to a miss
              \*   since the last clear
  sinceClear, \* history: a clear was handled and no search request was admitted since
  clearedKeys \* history: request lines a clear dropped, not requested since

vars == <<now, env, cache, rateLimit, flight, resp, running,
          seen, issued, answered, sinceClear, clearedKeys>>

---------------------------------------------------------------------------
\* Bounds of the model.

\* Requests to the rate-limited routes in one behaviour.
MaxReq == 2

---------------------------------------------------------------------------
\* Program constants.

CACHE_TTL == 5 * 60 * 1000
RATE_LIMIT_WINDOW == 60 * 1000
RATE_LIMIT_MAX == 100

---------------------------------------------------------------------------
\* Inputs.

Clients == {"ip1", "ip2"}

FREESOUND == "/api/freesound"
PEXELS == "/api/pexels"
FREESOUND_DL == "/api/freesound/download/:id"
PEXELS_DL == "/api/pexels/download"

SearchRoutes == {FREESOUND, PEXELS}
DownloadRoutes == {FREESOUND_DL, PEXELS_DL}

\* A raw query string: the names of its parameters, in the order written.
Queries == {<< >>, <<"url", "page">>, <<"page", "url">>}

\* What a request to a rate-limited route can look like.
SearchInputs == {<<FREESOUND, q>> : q \in Queries} \cup {<<PEXELS, <<"url">> >>}
DownloadInputs ==
  {<<FREESOUND_DL, << >> >>, <<PEXELS_DL, << >> >>, <<PEXELS_DL, <<"url">> >>}

\* Decoded upstream JSON bodies, non-2xx upstream statuses, download bodies.
Data == {"d1", "d2"}
UpstreamErrors == {404, 503}
StreamBodies == {<<"x", "y">>}

\* The instants the clock can be advanced to: around the end of a rate-limit
\* window opened at 0 and around the expiry of a cache entry stored at 0.
Instants ==
  {0, RATE_LIMIT_WINDOW, CACHE_TTL}

\* The environments the process is started in: one API key set, the other not.
Environments ==
  {[freesound |-> TRUE, pexels |-> FALSE], [freesound |-> FALSE, pexels |-> TRUE]}

ReqIds == 1..MaxReq

---------------------------------------------------------------------------
\* Response bodies. `code` is the upstream status the `error` text carries
\* (0 when it carries none), `retryAfter` the field of a 429 body (-1 when
\* absent), `size` the cache size an introspection body reports (-1 when
\* absent), `data` the decoded upstream JSON ("" when the body carries none).

Body(error, code, retryAfter, size, data) ==
  [error |-> error, code |-> code, retryAfter |-> retryAfter,
   size |-> size, data |-> data]

NoBody == Body("", 0, -1, -1, "")
JsonData(d) == Body("", 0, -1, -1, d)
MissingUrl == Body("Missing url parameter", 0, -1, -1, "")
KeyNotConfigured(route) ==
  Body(IF route \in {FREESOUND, FREESOUND_DL}
         THEN "Freesound API key not configured"
         ELSE "Pexels API key not configured", 0, -1, -1, "")
RateLimitExceeded(retryAfter) == Body("Rate limit exceeded", 0, retryAfter, -1, "")

\* error: `Freesound API error: ${response.status}` and its siblings.
UpstreamErrorBody(route, status) ==
  Body(CASE route = FREESOUND -> "Freesound API error: "
         [] route = PEXELS -> "Pexels API error: "
         [] OTHER -> "Download error: ", status, -1, -1, "")

\* A faulty variant of MirroredStatus: every upstream error is answered 500.
\* It contradicts C8.
MirroredStatusAlways500(status) == 500

\* The status the handler answers an upstream non-2xx with:
\* res.status(response.status).
MirroredStatus(status) == status

\* The body of a catch block.
CatchBody(route) ==
  Body(IF route \in SearchRoutes THEN "Proxy error" ELSE "Download proxy error",
       0, -1, -1, "")

IsErrorBody(b) == b.error # ""

---------------------------------------------------------------------------
\* The request: query parsing and the cache key.

\* req.query.<name> is set.
HasParam(q, name) == \E i \in 1..Len(q) : q[i] = name

\* A faulty variant of OriginalUrl: the query is taken as the set of its
\* parameters, whatever their order. It contradicts C13.
OriginalUrlCanonical(route, q) == <<route, {q[i] : i \in 1..Len(q)}>>

\* req.originalUrl: the path and the raw query string, as written.
OriginalUrl(route, q) == <<route, q>>

\* `${req.method}:${req.originalUrl}`
CacheKey(method, route, q) == <<method, OriginalUrl(route, q)>>

AllKeys == {CacheKey("GET", in[1], in[2]) : in \in SearchInputs}

\* The upstream URL a search handler fetches: `url` and, for Freesound, the
\* other parameters in the order they were written.
UpstreamUrl(route, q) ==
  IF route = FREESOUND
    THEN <<"https://freesound.org/apiv2/", "url",
           SelectSeq(q, LAMBDA p : p # "url")>>
    ELSE IF route = PEXELS
      THEN <<"https://api.pexels.com/videos/", "url", << >> >>
      ELSE IF route = FREESOUND_DL
        THEN <<"https://freesound.org/apiv2/sounds/", "id", << >> >>
        ELSE <<"", "url", << >> >>

\* The API key the route needs is configured (the Pexels download needs none).
KeyConfigured(route) ==
  CASE route \in {FREESOUND, FREESOUND_DL} -> env.freesound
    [] route = PEXELS -> env.pexels
    [] OTHER -> TRUE

---------------------------------------------------------------------------
\* The response cache.

EmptyMap == [x \in {} |-> 0]

MapSet(m, k, v) == [x \in DOMAIN m \cup {k} |-> IF x = k THEN v ELSE m[x]]

\* Date.now() - cached.timestamp < CACHE_TTL
CacheFresh(entry, t) == t - entry.timestamp < CACHE_TTL

\* A faulty variant of CacheAfterGet: a hit restarts the entry's life
\* (sliding expiration). It contradicts C21.
CacheAfterGetRefreshed(ch, key, t) == [ch EXCEPT ![key].timestamp = t]

\* The map once cacheMiddleware has served entry `key` at t: cache.get and
\* res.json(cached.data) leave it as it was.
CacheAfterGet(ch, key, t) == ch

\* cached && Date.now() - cached.timestamp < CACHE_TTL
CacheHit(ch, key, t) == key \in DOMAIN ch /\ CacheFresh(ch[key], t)

\* A faulty variant of CacheSet: the store also drops the entries that have
\* expired. It contradicts C19.
CacheSetEvicting(ch, key, data, t) ==
  LET kept == {k \in DOMAIN ch : t - ch[k].timestamp < CACHE_TTL}
  IN [x \in kept \cup {key} |->
        IF x = key THEN [data |-> data, timestamp |-> t] ELSE ch[x]]

\* cache.set(key, { data, timestamp: Date.now() })
CacheSet(ch, key, data, t) == MapSet(ch, key, [data |-> data, timestamp |-> t])

---------------------------------------------------------------------------
\* The rate limiter.

\* A faulty variant of WindowExpired: the window of a client that is over the
\* limit never expires. It contradicts C22.
WindowExpiredUnlessOverLimit(limit, t) ==
  t > limit.resetTime /\ limit.count <= RATE_LIMIT_MAX

\* now > limit.resetTime
WindowExpired(limit, t) == t > limit.resetTime

\* A faulty variant of RateLimitUpdate: the increment is lost when another
\* request of the client is in flight, as it would be were the counter read
\* before a suspension and written after it. It contradicts C16.
RateLimitUpdateLosingIncrement(rl, c, t) ==
  IF c \notin DOMAIN rl
    THEN MapSet(rl, c, [count |-> 1, resetTime |-> t + RATE_LIMIT_WINDOW])
    ELSE IF WindowExpired(rl[c], t)
      THEN MapSet(rl, c, [count |-> 1, resetTime |-> t + RATE_LIMIT_WINDOW])
      ELSE IF \E i \in DOMAIN flight :
                flight[i].client = c /\ flight[i].pc \in {"fetch", "json", "pipe"}
        THEN rl
        ELSE MapSet(rl, c, [rl[c] EXCEPT !.count = @ + 1])

\* The counter map after the limiter has counted a request of client c at t.
RateLimitUpdate(rl, c, t) ==
  IF c \notin DOMAIN rl
    THEN MapSet(rl, c, [count |-> 1, resetTime |-> t + RATE_LIMIT_WINDOW])
    ELSE IF WindowExpired(rl[c], t)
      THEN MapSet(rl, c, [count |-> 1, resetTime |-> t + RATE_LIMIT_WINDOW])
      ELSE MapSet(rl, c, [rl[c] EXCEPT !.count = @ + 1])

\* A faulty variant of OverLimit: the RATE_LIMIT_MAX-th request is rejected
\* too. It contradicts C4.
OverLimitFromMax(limit) == limit.count >= RATE_LIMIT_MAX

\* limit.count > RATE_LIMIT_MAX
OverLimit(limit) == limit.count > RATE_LIMIT_MAX

\* The limiter answers 429: only a client that already had a counter is checked.
Rejected(rl, c, t) == c \in DOMAIN rl /\ OverLimit(RateLimitUpdate(rl, c, t)[c])

\* Math.ceil(a / b) for b > 0.
Ceil(a, b) == -((-a) \div b)

\* retryAfter: Math.ceil((limit.resetTime - now) / 1000)
RetryAfter(limit, t) == Ceil(limit.resetTime - t, 1000)

\* The limiter opens a window for this request (a new counter or a reset).
OpensWindow(rl, c, t) == c \notin DOMAIN rl \/ WindowExpired(rl[c], t)

---------------------------------------------------------------------------
\* The requests. pc is the place a request has reached:
\*   "none"     not issued yet
\*   "fetch"    suspended at `await fetch(...)`
\*   "json"     suspended at `await response.json()`
\*   "pipe"     headers sent, response.body piped to res
\*   "stalled"  the piped body broke off; the outbound response never ends
\*   "done"     the response is complete
\* The other fields record what the request asked and what it is answered:
\* src is the body the upstream response carries, pending what of it is still
\* to come, out what res has been written, clen the upstream content-length
\* header and sentLen the Content-Length header set on res (-1 when absent).
\* History taken at arrival: was is the client's counter as the limiter found
\* it (NoCounter when the client had none), rl the counter as the limiter left
\* it, due whether the client had a counter with now >= resetTime, ord the
\* request's rank in the client's window, inWin whether it arrived before
\* the window's resetTime, first and prev the entries of issued and answered
\* for its request line, dup whether the request in first arrived less than
\* CACHE_TTL ago with no clear since, stale whether the cache held an entry
\* for the key aged CACHE_TTL or more, wasCleared whether a clear had dropped
\* its line, admitted whether the limiter let it pass.

NoCounter == [count |-> 0, resetTime |-> 0]
NoIssue == [id |-> 0, at |-> 0]
NoAnswer == [id |-> 0, body |-> NoBody, at |-> 0]

NoReq ==
  [pc |-> "none", id |-> 0, route |-> "", client |-> "", query |-> << >>,
   at |-> 0, status |-> 0, body |-> NoBody, calls |-> 0, hit |-> FALSE,
   failure |-> "", upstream |-> 0, src |-> << >>, pending |-> << >>,
   out |-> << >>, clen |-> -1, sentLen |-> -1,
   was |-> NoCounter, rl |-> NoCounter, due |-> FALSE, ord |-> 0, inWin |-> FALSE,
   admitted |-> FALSE, first |-> NoIssue, prev |-> NoAnswer, dup |-> FALSE,
   stale |-> FALSE, wasCleared |-> FALSE, afterClear |-> FALSE]

\* A slot whose request has been answered.
DoneReq == [NoReq EXCEPT !.pc = "done"]

Lines == SearchInputs

NextId == Cardinality({i \in ReqIds : flight[i].pc # "none"}) + 1

\* res.status(status).json(body) with the original res.json: the response ends.
Respond(r, status, body) ==
  [r EXCEPT !.pc = "done", !.status = status, !.body = body]

\* The request as it arrives: what it asks and the history taken at arrival.
Arrival(i, c, route, q) ==
  [NoReq EXCEPT
     !.id = i, !.route = route, !.client = c, !.query = q, !.at = now,
     !.was = IF c \in DOMAIN rateLimit THEN rateLimit[c] ELSE NoCounter,
     !.rl = RateLimitUpdate(rateLimit, c, now)[c],
     !.admitted = ~Rejected(rateLimit, c, now),
     !.due = c \in DOMAIN rateLimit /\ now >= rateLimit[c].resetTime,
     !.ord = IF OpensWindow(rateLimit, c, now) THEN 1 ELSE seen[c] + 1,
     !.inWin = OpensWindow(rateLimit, c, now) \/ now < rateLimit[c].resetTime]

\* rateLimitMiddleware counts the request; the history counts it too.
Count(c) ==
  /\ rateLimit' = RateLimitUpdate(rateLimit, c, now)
  /\ seen' = [seen EXCEPT ![c] =
                IF OpensWindow(rateLimit, c, now) THEN 1 ELSE @ + 1]

\* A faulty variant of TooMany: the cache is looked up ahead of the limiter,
\* and a request over the limit is served a fresh entry. It contradicts C12.
TooManyAfterCacheLookup(r) ==
  LET key == CacheKey("GET", r.route, r.query)
  IN IF CacheHit(cache, key, now)
       THEN Respond([r EXCEPT !.hit = TRUE], 200, cache[key].data)
       ELSE Respond(r, 429, RateLimitExceeded(RetryAfter(r.rl, r.at)))

\* The 429 of rateLimitMiddleware.
TooMany(r) ==
  Respond(r, 429, RateLimitExceeded(RetryAfter(r.rl, r.at)))

\* The response of request i is complete.
Emit(i, r) ==
  /\ resp' = r
  /\ flight' = [flight EXCEPT ![i] = DoneReq]

\* Request i is suspended.
Suspend(i, r) ==
  /\ resp' = NoReq
  /\ flight' = [flight EXCEPT ![i] = r]

\* What a suspended request carries on: the history taken at arrival stays
\* with the step of the arrival, but for stale.
Continuation(r) ==
  [NoReq EXCEPT !.pc = r.pc, !.id = r.id, !.route = r.route,
                !.client = r.client, !.query = r.query, !.calls = r.calls,
                !.admitted = r.admitted, !.stale = r.stale]

\* Request i has arrived and is suspended at its first await.
SuspendArrived(i, r) ==
  /\ resp' = r
  /\ flight' = [flight EXCEPT ![i] = Continuation(r)]

Init ==
  /\ now = 0
  /\ env \in Environments
  /\ cache = EmptyMap
  \* The process is met when client ip1 has just sent RATE_LIMIT_MAX - 1
  \* requests without `url` to /api/pexels/download at time 0 (each answered
  \* 400: they touch nothing but ip1's counter). ip2 has sent none.
  /\ rateLimit = MapSet(EmptyMap, "ip1",
                        [count |-> RATE_LIMIT_MAX - 1,
                         resetTime |-> RATE_LIMIT_WINDOW])
  /\ seen = [c \in Clients |-> IF c = "ip1" THEN RATE_LIMIT_MAX - 1 ELSE 0]
  /\ flight = [i \in ReqIds |-> NoReq]
  /\ resp = NoReq
  /\ running = TRUE
  /\ issued = [l \in Lines |-> NoIssue]
  /\ answered = [l \in Lines |-> NoAnswer]
  /\ sinceClear = FALSE
  /\ clearedKeys = {}

\* The clock moves on.
Tick(t) ==
  /\ running
  /\ t > now
  /\ now' = t
  /\ resp' = NoReq
  /\ UNCHANGED <<env, cache, rateLimit, flight, running,
                 seen, issued, answered, sinceClear, clearedKeys>>

\* res.json as cacheMiddleware leaves it on a miss: store, then send.
StoreAndRespond(i, r, status, body) ==
  /\ cache' = CacheSet(cache, CacheKey("GET", r.route, r.query), body, now)
  /\ answered' = [answered EXCEPT ![<<r.route, r.query>>] =
                    [id |-> i, body |-> body, at |-> now]]
  /\ Emit(i, Respond(r, status, body))

\* A faulty variant of Json: the download routes answer through
\* cacheMiddleware's wrapper too. It contradicts C20.
JsonAlwaysStored(i, r, status, body) == StoreAndRespond(i, r, status, body)

\* res.json as the route calls it: through cacheMiddleware's wrapper on a
\* search route, the original on a download route.
Json(i, r, status, body) ==
  IF r.route \in SearchRoutes
    THEN StoreAndRespond(i, r, status, body)
    ELSE /\ Emit(i, Respond(r, status, body))
         /\ UNCHANGED <<cache, answered>>

\* GET /api/freesound and GET /api/pexels, up to the first suspension:
\* rateLimitMiddleware, cacheMiddleware, then the handler until `await fetch`.
SearchRequest(c, route, q) ==
  /\ running
  /\ NextId \in ReqIds
  /\ Count(c)
  /\ LET i == NextId
         r == Arrival(i, c, route, q)
         key == CacheKey("GET", route, q)
         line == <<route, q>>
         a == [r EXCEPT !.first = issued[line], !.prev = answered[line],
                        !.dup = /\ issued[line].id # 0
                                /\ now - issued[line].at < CACHE_TTL,
                        !.stale = /\ key \in DOMAIN cache
                                  /\ now - cache[key].timestamp >= CACHE_TTL,
                        !.wasCleared = line \in clearedKeys]
     IN IF Rejected(rateLimit, c, now)
          THEN /\ Emit(i, TooMany(r))
               /\ UNCHANGED <<cache, issued, answered, sinceClear, clearedKeys>>
          ELSE
            /\ issued' = [issued EXCEPT ![line] =
                            [id |-> i, at |-> now]]
            /\ sinceClear' = FALSE
            /\ clearedKeys' = clearedKeys \ {line}
            /\ IF CacheHit(cache, key, now)
                 THEN /\ Emit(i, Respond([a EXCEPT !.hit = TRUE], 200, cache[key].data))
                      /\ cache' = CacheAfterGet(cache, key, now)
                      /\ UNCHANGED answered
                 ELSE IF ~HasParam(q, "url")
                   THEN StoreAndRespond(i, a, 400, MissingUrl)
                   ELSE IF ~KeyConfigured(route)
                     THEN StoreAndRespond(i, a, 500, KeyNotConfigured(route))
                     ELSE /\ SuspendArrived(i, [a EXCEPT !.pc = "fetch", !.calls = @ + 1])
                          /\ UNCHANGED <<cache, answered>>
  /\ UNCHANGED <<now, env, running>>

\* GET /api/freesound/download/:id and GET /api/pexels/download, up to the
\* first suspension: rateLimitMiddleware, then the handler until `await fetch`.
DownloadRequest(c, route, q) ==
  /\ running
  /\ NextId \in ReqIds
  /\ Count(c)
  /\ LET i == NextId
         r == Arrival(i, c, route, q)
     IN IF Rejected(rateLimit, c, now)
          THEN Emit(i, TooMany(r))
          ELSE IF route = PEXELS_DL /\ ~HasParam(q, "url")
            THEN Emit(i, Respond(r, 400, MissingUrl))
            ELSE IF ~KeyConfigured(route)
              THEN Emit(i, Respond(r, 500, KeyNotConfigured(route)))
              ELSE SuspendArrived(i, [r EXCEPT !.pc = "fetch", !.calls = @ + 1])
  /\ UNCHANGED <<now, env, cache, running, issued, answered,
                 sinceClear, clearedKeys>>

\* `await fetch` resolves with a 2xx response. A search handler goes on to
\* `await response.json()`; a download handler copies the headers and pipes
\* response.body into res.
FetchOk(i, chunks, clen) ==
  /\ running
  /\ flight[i].pc = "fetch"
  /\ Suspend(i,
       IF flight[i].route \in SearchRoutes
         THEN [flight[i] EXCEPT !.pc = "json", !.upstream = 200]
         ELSE [flight[i] EXCEPT !.pc = "pipe", !.upstream = 200, !.status = 200,
                                !.src = chunks, !.pending = chunks,
                                !.clen = clen,
                                !.sentLen = IF clen # -1 THEN clen ELSE -1])
  /\ UNCHANGED <<now, env, cache, rateLimit, running,
                 seen, issued, answered, sinceClear, clearedKeys>>

\* `await fetch` resolves with a non-2xx response: !response.ok.
FetchNotOk(i, s) ==
  /\ running
  /\ flight[i].pc = "fetch"
  /\ Json(i, [flight[i] EXCEPT !.upstream = s, !.failure = "upstream"],
          MirroredStatus(s), UpstreamErrorBody(flight[i].route, s))
  /\ UNCHANGED <<now, env, rateLimit, running,
                 seen, issued, sinceClear, clearedKeys>>

\* `await fetch` rejects (network error, or the timeout before the headers):
\* the catch block answers.
FetchThrows(i) ==
  /\ running
  /\ flight[i].pc = "fetch"
  /\ Json(i, [flight[i] EXCEPT !.failure = "transport"],
          500, CatchBody(flight[i].route))
  /\ UNCHANGED <<now, env, rateLimit, running,
                 seen, issued, sinceClear, clearedKeys>>

\* `await response.json()` resolves: res.json(data).
JsonOk(i, d) ==
  /\ running
  /\ flight[i].pc = "json"
  /\ Json(i, flight[i], 200, JsonData(d))
  /\ UNCHANGED <<now, env, rateLimit, running,
                 seen, issued, sinceClear, clearedKeys>>

\* `await response.json()` rejects (a body that is not JSON, or the timeout
\* while the body is read): the catch block answers.
JsonThrows(i) ==
  /\ running
  /\ flight[i].pc = "json"
  /\ Json(i, [flight[i] EXCEPT !.failure = "transport"],
          500, CatchBody(flight[i].route))
  /\ UNCHANGED <<now, env, rateLimit, running,
                 seen, issued, sinceClear, clearedKeys>>

\* A faulty variant of Relay: the chunk is written ahead of what res already
\* holds. It contradicts C11.
RelayAhead(out, pending) == <<Head(pending)>> \o out

\* What res holds once pipe has written it the next chunk of response.body.
Relay(out, pending) == Append(out, Head(pending))

\* response.body.pipe(res) relays the next chunk.
PipeChunk(i) ==
  /\ running
  /\ flight[i].pc = "pipe"
  /\ flight[i].pending # << >>
  /\ Suspend(i, [flight[i] EXCEPT !.out = Relay(@, flight[i].pending),
                                  !.pending = Tail(@)])
  /\ UNCHANGED <<now, env, cache, rateLimit, running,
                 seen, issued, answered, sinceClear, clearedKeys>>

\* The upstream body ends: pipe ends res.
PipeEnd(i) ==
  /\ running
  /\ flight[i].pc = "pipe"
  /\ flight[i].pending = << >>
  /\ Emit(i, [flight[i] EXCEPT !.pc = "done"])
  /\ UNCHANGED <<now, env, cache, rateLimit, running,
                 seen, issued, answered, sinceClear, clearedKeys>>

\* The upstream body breaks off while it is piped (connection reset, timeout)
\* and the library does not report it: nothing ends res, the outbound
\* response stays open.
StreamStalls(i) ==
  /\ running
  /\ flight[i].pc = "pipe"
  /\ Suspend(i, [flight[i] EXCEPT !.pc = "stalled", !.failure = "stream"])
  /\ UNCHANGED <<now, env, cache, rateLimit, running,
                 seen, issued, answered, sinceClear, clearedKeys>>

\* The upstream body breaks off while it is piped and the library reports
\* it: response.body emits 'error'. Nothing listens for it and the handler's
\* try block has returned long ago, so the event is an uncaught exception:
\* the process ends, and with it both maps and every request in flight.
StreamErrorUncaught(i) ==
  /\ running
  /\ flight[i].pc = "pipe"
  /\ running' = FALSE
  /\ cache' = EmptyMap
  /\ rateLimit' = EmptyMap
  /\ flight' = [j \in ReqIds |->
                  IF flight[j].pc \in {"none", "done"} THEN flight[j]
                  ELSE [NoReq EXCEPT !.pc = "stalled", !.id = j,
                                     !.failure = IF j = i THEN "stream" ELSE "exit"]]
  /\ resp' = NoReq
  /\ seen' = [c \in Clients |-> 0]
  /\ issued' = [l \in Lines |-> NoIssue]
  /\ answered' = [l \in Lines |-> NoAnswer]
  /\ sinceClear' = FALSE
  /\ clearedKeys' = {}
  /\ UNCHANGED <<now, env>>

\* A faulty variant of Introspection: the route answers 429 while a client is
\* over the limit. It contradicts C14.
IntrospectionLimited(route, size) ==
  [NoReq EXCEPT !.pc = "done", !.route = route, !.at = now,
                !.status = IF \E c \in DOMAIN rateLimit : OverLimit(rateLimit[c])
                             THEN 429 ELSE 200,
                !.body = Body("", 0, -1, size, "")]

\* The response of a route that has no middleware: always 200.
Introspection(route, size) ==
  [NoReq EXCEPT !.pc = "done", !.route = route, !.at = now, !.status = 200,
                !.body = Body("", 0, -1, size, "")]

\* GET /health
Health ==
  /\ running
  /\ resp' = Introspection("/health", Cardinality(DOMAIN cache))
  /\ UNCHANGED <<now, env, cache, rateLimit, flight, running,
                 seen, issued, answered, sinceClear, clearedKeys>>

\* GET /api/cache/status
CacheStatus ==
  /\ running
  /\ resp' = [Introspection("/api/cache/status", Cardinality(DOMAIN cache))
                EXCEPT !.afterClear = sinceClear]
  /\ sinceClear' = FALSE
  /\ UNCHANGED <<now, env, cache, rateLimit, flight, running,
                 seen, issued, answered, clearedKeys>>

\* DELETE /api/cache/clear
CacheClear ==
  /\ running
  /\ cache' = EmptyMap
  /\ resp' = Introspection("/api/cache/clear", Cardinality(DOMAIN cache))
  /\ sinceClear' = TRUE
  /\ clearedKeys' = clearedKeys \cup {l \in Lines : CacheKey("GET", l[1], l[2]) \in DOMAIN cache}
  /\ issued' = [l \in Lines |-> NoIssue]
  /\ answered' = [l \in Lines |-> NoAnswer]
  /\ UNCHANGED <<now, env, rateLimit, flight, running, seen>>

Next ==
  \/ \E t \in Instants : Tick(t)
  \/ \E c \in Clients, in \in SearchInputs : SearchRequest(c, in[1], in[2])
  \/ \E c \in Clients, in \in DownloadInputs : DownloadRequest(c, in[1], in[2])
  \/ \E i \in ReqIds, chunks \in StreamBodies, known \in BOOLEAN :
       FetchOk(i, chunks, IF known THEN Len(chunks) ELSE -1)
  \/ \E i \in ReqIds, s \in UpstreamErrors : FetchNotOk(i, s)
  \/ \E i \in ReqIds : FetchThrows(i)
  \/ \E i \in ReqIds, d \in Data : JsonOk(i, d)
  \/ \E i \in ReqIds : JsonThrows(i)
  \/ \E i \in ReqIds : PipeChunk(i)
  \/ \E i \in ReqIds : PipeEnd(i)
  \/ \E i \in ReqIds : StreamStalls(i)
  \/ \E i \in ReqIds : StreamErrorUncaught(i)
  \/ Health
  \/ CacheStatus
  \/ CacheClear

Spec == Init /\ [][Next]_vars

\* The request line of the entry the cache holds in WarmInit.
WarmLine == <<FREESOUND, <<"url", "page">> >>

\* The process met later in its life, at time 0 still: client ip1 has sent
\* RATE_LIMIT_MAX requests without `url` to /api/pexels/download (each
\* answered 400), and client ip2 one GET /api/freesound?url=..&page=.., which
\* upstream answered with d1 (the Freesound key is configured). That request
\* came before the ones the behaviour follows: its id is -1.
WarmInit ==
  /\ now = 0
  /\ env = [freesound |-> TRUE, pexels |-> FALSE]
  /\ cache = CacheSet(EmptyMap, CacheKey("GET", WarmLine[1], WarmLine[2]),
                      JsonData("d1"), 0)
  /\ rateLimit = [c \in Clients |->
                    [count |-> IF c = "ip1" THEN RATE_LIMIT_MAX ELSE 1,
                     resetTime |-> RATE_LIMIT_WINDOW]]
  /\ seen = [c \in Clients |-> IF c = "ip1" THEN RATE_LIMIT_MAX ELSE 1]
  /\ flight = [i \in ReqIds |-> NoReq]
  /\ resp = NoReq
  /\ running = TRUE
  /\ issued = [l \in Lines |->
                 IF l = WarmLine THEN [id |-> -1, at |-> 0] ELSE NoIssue]
  /\ answered = [l \in Lines |->
                   IF l = WarmLine
                     THEN [id |-> -1, body |-> JsonData("d1"), at |-> 0]
                     ELSE NoAnswer]
  /\ sinceClear = FALSE
  /\ clearedKeys = {}

WarmSpec == WarmInit /\ [][Next]_vars

\* What the upstream side and the event loop do for request i once it is
\* suspended: the awaited promise settles (a response, a rejection, the
\* timeout of fetch), the piped body moves on, ends or breaks off.
Upstream(i) ==
  \/ \E chunks \in StreamBodies, known \in BOOLEAN :
       FetchOk(i, chunks, IF known THEN Len(chunks) ELSE -1)
  \/ \E s \in UpstreamErrors : FetchNotOk(i, s)
  \/ FetchThrows(i)
  \/ \E d \in Data : JsonOk(i, d)
  \/ JsonThrows(i)
  \/ PipeChunk(i)
  \/ PipeEnd(i)
  \/ StreamStalls(i)
  \/ StreamErrorUncaught(i)

\* Every upstream call eventually responds or hits its timeout, and the event
\* loop runs every continuation that is ready.
FairSpec == Spec /\ \A i \in ReqIds : WF_vars(Upstream(i))

\* Every request the state shows: the one that has just arrived or been
\* answered, and the requests in flight.
Records == {resp} \cup {flight[i] : i \in ReqIds}

\* The requests to the search routes that the limiter let pass.
Searches == {r \in Records : r.route \in SearchRoutes /\ r.admitted}

---------------------------------------------------------------------------
\* C1: in every reachable state the cache holds only bodies of successful
\* upstream responses: no entry holds the body of an error response (400
\* missing url, 500 key not configured, mirrored upstream status, 500 proxy
\* error).
C1_CacheHoldsNoErrorBody ==
  \A k \in DOMAIN cache : ~IsErrorBody(cache[k].data)

\* C2: of two admitted search requests with the same method, path
\* and raw query, the second arriving less than CACHE_TTL after the first
\* with no clear in between, the second causes no upstream call and, when the
\* first had been answered before the second arrived, returns its body.
C2_SecondOfTwoIsServedFromCache ==
  \A r \in Searches :
    r.dup => /\ r.calls = 0
             /\ (r.pc = "done" /\ r.prev.id = r.first.id => r.body = r.prev.body)

\* C3: an admitted search request whose key has an entry with
\* now - storedAt >= CACHE_TTL is treated as a miss, makes exactly one
\* upstream call and, answered with a success, leaves the entry holding the
\* new body and the time of the answer.
C3_StaleEntryIsRefetched ==
  \A r \in Searches :
    r.stale =>
      /\ ~r.hit
      /\ r.calls = 1
      /\ (r.pc = "done" /\ r.status = 200 =>
            LET key == CacheKey("GET", r.route, r.query)
            IN key \in DOMAIN cache /\ cache[key] = [data |-> r.body, timestamp |-> now])

\* C4: within one window of a client, a request that arrives before the
\* window's resetTime is admitted when it is among the first RATE_LIMIT_MAX
\* requests of the window and answered 429 when it is a later one.
C4_FirstMaxAdmittedRestRejected ==
  \A r \in Records :
    (r.id # 0 /\ r.inWin) =>
      /\ (r.ord <= RATE_LIMIT_MAX => r.admitted /\ ~(r.pc = "done" /\ r.status = 429))
      /\ (r.ord > RATE_LIMIT_MAX => ~r.admitted /\ r.pc = "done" /\ r.status = 429)

\* C4, witness: the request after the RATE_LIMIT_MAX-th of a window has just
\* been answered 429, before the window's resetTime.
C4_Witness ==
  /\ resp.inWin
  /\ resp.ord = RATE_LIMIT_MAX + 1
  /\ resp.status = 429
  /\ resp.client = "ip1"
  /\ rateLimit["ip1"].count = RATE_LIMIT_MAX + 1

\* C5: every rejection by the rate limiter carries
\* retryAfter = ceil((resetTime - now) / 1000), and that is greater than 0.
C5_RetryAfterIsCeilAndPositive ==
  \A r \in Records :
    (r.id # 0 /\ ~r.admitted) =>
      /\ r.body.retryAfter * 1000 >= r.rl.resetTime - r.at
      /\ (r.body.retryAfter - 1) * 1000 < r.rl.resetTime - r.at
      /\ r.body.retryAfter > 0

\* C6: a request of a client that has a counter, arriving at now >=
\* resetTime (now = resetTime included), leaves the counter at count = 1 and
\* resetTime = now + RATE_LIMIT_WINDOW and is admitted.
C6_ResetAtOrAfterResetTime ==
  \A r \in Records :
    (r.id # 0 /\ r.due) =>
      /\ r.rl = [count |-> 1, resetTime |-> r.at + RATE_LIMIT_WINDOW]
      /\ r.admitted

\* C7: every admitted search request without a `url` parameter is answered
\* 400 and makes no upstream call, the first such request and every repeat.
C7_MissingUrlIsAnswered400 ==
  \A r \in Searches :
    ~HasParam(r.query, "url") => r.pc = "done" /\ r.status = 400 /\ r.calls = 0

\* C8: when the upstream call of a search or download request returns a
\* non-2xx status S, the request is answered with status S and a JSON body
\* whose error text carries S and that holds nothing of the upstream body.
C8_UpstreamStatusIsMirrored ==
  \A r \in Records :
    r.failure = "upstream" =>
      /\ r.pc = "done"
      /\ r.upstream \in UpstreamErrors
      /\ r.status = r.upstream
      /\ IsErrorBody(r.body)
      /\ r.body.code = r.upstream
      /\ r.body.data = ""

\* C8, witness: a download request whose upstream call returned 503 has just
\* been answered.
C8_Witness ==
  /\ resp.route \in DownloadRoutes
  /\ resp.failure = "upstream"
  /\ resp.upstream = 503
  /\ resp.calls = 1

\* C9: after a cache clear, the next cache status reports size 0, and the
\* next admitted search request for a key the clear dropped is a miss that
\* makes an upstream call, also when requests were in flight at the clear.
C9_ClearLeavesCacheEmpty ==
  /\ (resp.route = "/api/cache/status" /\ resp.afterClear => resp.body.size = 0)
  /\ \A r \in Searches : r.wasCleared => ~r.hit /\ r.calls = 1

\* C10: no failure ends the process: every request that met a failure
\* (upstream non-2xx, transport error or timeout, error of the piped
\* download body) is answered with a JSON error body, and the process runs.
C10_NoFailureEndsTheProcess ==
  /\ running
  /\ \A r \in Records :
       r.failure # "" => r.pc = "done" /\ IsErrorBody(r.body)

\* C11: on either download route, when upstream answers 2xx, what res has
\* been written is at every moment the part of the upstream body that has
\* arrived, in its order, and the whole upstream body once the response is
\* complete; and when upstream supplies a content-length, the Content-Length
\* of the response equals it.
C11_OutboundBodyIsUpstreamBody ==
  \A r \in Records :
    (r.route \in DownloadRoutes /\ r.upstream = 200) =>
      /\ r.out \o r.pending = r.src
      /\ (r.pc = "done" => r.out = r.src)
      /\ (r.clen # -1 => r.sentLen = r.clen)

\* C11, witness: a download whose upstream body came in two chunks with a
\* content-length has just been completed.
C11_Witness ==
  /\ resp.route \in DownloadRoutes
  /\ resp.pc = "done"
  /\ resp.upstream = 200
  /\ resp.out = <<"x", "y">>
  /\ resp.clen = 2
  /\ resp.sentLen = 2

\* C12: the step that handles a request the rate limiter rejects answers it
\* 429 at once, serves it no cache entry, makes no upstream call, starts no
\* handler and leaves the cache as it was, whether or not the cache holds a
\* fresh entry for the request's key.
C12_RejectedRequestTouchesNothing ==
  [][(resp'.id # 0 /\ ~resp'.admitted) =>
       /\ resp'.pc = "done"
       /\ resp'.status = 429
       /\ ~resp'.hit
       /\ resp'.calls = 0
       /\ cache' = cache
       /\ \A i \in ReqIds :
            flight'[i] = flight[i] \/ (flight[i].pc = "none" /\ flight'[i] = DoneReq)
    ]_vars

\* C12, witness: a search request has just been rejected while the cache
\* holds a fresh entry, a decoded upstream body, for its key.
C12_Witness ==
  /\ resp.id # 0
  /\ ~resp.admitted
  /\ resp.status = 429
  /\ resp.route \in SearchRoutes
  /\ LET key == CacheKey("GET", resp.route, resp.query)
     IN /\ CacheHit(cache, key, now)
        /\ cache[key].data = JsonData("d1")

\* C13: the cache key is the method, the path and the raw query as written:
\* two request lines have the same key exactly when they are the same line;
\* every line answered on a miss since the last clear has its own entry,
\* holding that answer; and an admitted search request that passes validation
\* and configuration is served from the cache exactly when its own line, in
\* its own parameter order, was answered less than CACHE_TTL ago, and makes
\* its own upstream call otherwise.
C13_KeyIsMethodPathAndRawQuery ==
  /\ \A l1, l2 \in Lines :
       (CacheKey("GET", l1[1], l1[2]) = CacheKey("GET", l2[1], l2[2])) <=> (l1 = l2)
  /\ \A l \in Lines :
       LET key == CacheKey("GET", l[1], l[2])
       IN IF answered[l].id = 0
            THEN key \notin DOMAIN cache
            ELSE /\ key \in DOMAIN cache
                 /\ cache[key] = [data |-> answered[l].body,
                                  timestamp |-> answered[l].at]
  /\ \A r \in Searches :
       (HasParam(r.query, "url") /\ KeyConfigured(r.route)) =>
         /\ r.hit <=> (r.prev.id # 0 /\ r.at - r.prev.at < CACHE_TTL)
         /\ (~r.hit => r.calls = 1)

\* C13, witness: the second of two requests that differ in the order of
\* their parameters has made its own upstream call and has just been
\* answered; the cache holds an entry for each.
C13_Witness ==
  /\ resp.route = FREESOUND
  /\ resp.query = <<"page", "url">>
  /\ resp.pc = "done"
  /\ resp.status = 200
  /\ resp.calls = 1
  /\ Cardinality(DOMAIN cache) = 2
  /\ CacheKey("GET", FREESOUND, <<"url", "page">>) \in DOMAIN cache
  /\ cache[CacheKey("GET", FREESOUND, <<"url", "page">>)].data = JsonData("d1")
  /\ cache[CacheKey("GET", FREESOUND, <<"page", "url">>)].data = JsonData("d2")

\* C14: the step that handles GET /health or GET /api/cache/status leaves
\* the cache and every rate-limit counter as they were and answers 200, also
\* when a client is over the limit.
C14_HealthAndStatusAreReadOnly ==
  [][resp'.route \in {"/health", "/api/cache/status"} =>
       /\ cache' = cache
       /\ rateLimit' = rateLimit
       /\ resp'.pc = "done"
       /\ resp'.status = 200
       /\ resp'.body.size = Cardinality(DOMAIN cache)
    ]_vars

\* C14, witness: GET /health has just been answered while client ip1 is over
\* the limit and the cache holds an entry.
C14_Witness ==
  /\ resp.route = "/health"
  /\ resp.status = 200
  /\ "ip1" \in DOMAIN rateLimit
  /\ OverLimit(rateLimit["ip1"])
  /\ resp.body.size = 1

\* C15: no two search requests with the same cache key are at the same time
\* between their cache read (a miss) and their cache write: at most one
\* request per key is awaiting upstream.
C15_NoTwoMissesOnOneKey ==
  \A i, j \in ReqIds :
    (/\ i # j
     /\ flight[i].route \in SearchRoutes
     /\ flight[j].route \in SearchRoutes
     /\ flight[i].pc \in {"fetch", "json"}
     /\ flight[j].pc \in {"fetch", "json"}) =>
      CacheKey("GET", flight[i].route, flight[i].query)
        # CacheKey("GET", flight[j].route, flight[j].query)

\* C16: in every reachable state, whatever requests are in flight, the count
\* of a client is the number of its requests that went through the rate
\* limiter since the window of its counter was opened; a client without a
\* counter has sent none.
C16_CountIsRequestsSinceWindowOpened ==
  \A c \in Clients :
    IF c \in DOMAIN rateLimit
      THEN rateLimit[c].count = seen[c]
      ELSE seen[c] = 0

\* C16, witness: a second request of client ip2 has just been counted while
\* its first is still awaiting upstream.
C16_Witness ==
  /\ resp.client = "ip2"
  /\ resp.id = 2
  /\ flight[1].client = "ip2"
  /\ flight[1].pc = "fetch"
  /\ "ip2" \in DOMAIN rateLimit
  /\ rateLimit["ip2"].count = 2

\* C17: every request makes at most one upstream call, and every request
\* that met a failure has been answered, once, with a failure response.
C17_OneCallAndOneFailureResponse ==
  \A r \in Records :
    /\ r.calls <= 1
    /\ (r.failure # "" => r.pc = "done" /\ r.status >= 400)

\* C18: when every upstream call eventually responds or hits its timeout,
\* every request that is awaiting upstream or piping a body eventually has
\* its response completed.
C18_EveryRequestIsAnswered ==
  \A i \in ReqIds :
    (flight[i].pc \in {"fetch", "json", "pipe"}) ~> (flight[i].pc = "done")

\* C19: while the process runs, no step but a cache clear removes a cache
\* key, and an entry changes only by being stored anew at the current time:
\* a lookup that finds a stale entry leaves it in place; and no step, a clear
\* included, removes a client from the rate-limit map.
C19_EntriesAreNeverEvicted ==
  [][running' =>
       /\ DOMAIN rateLimit \subseteq DOMAIN rateLimit'
       /\ (resp'.route # "/api/cache/clear" =>
             /\ DOMAIN cache \subseteq DOMAIN cache'
             /\ \A k \in DOMAIN cache :
                  cache'[k] = cache[k] \/ cache'[k].timestamp = now')
    ]_vars

\* C19, witness: a search request has just met a stale entry for its key and
\* awaits upstream; the stale entry is still in the cache.
C19_Witness ==
  /\ resp.stale
  /\ resp.pc = "fetch"
  /\ LET key == CacheKey("GET", resp.route, resp.query)
     IN /\ key \in DOMAIN cache
        /\ now - cache[key].timestamp >= CACHE_TTL

\* C20: while the process runs, a step of a download request (its arrival,
\* the answer of its upstream call, a chunk or the end of its body) leaves
\* the cache as it was; and a download request the limiter admits and that
\* passes the url and API-key checks is served no cache entry and makes its
\* own upstream call.
C20_DownloadsLeaveTheCacheAlone ==
  [][running' =>
       /\ ((\/ resp'.route \in DownloadRoutes
            \/ \E i \in ReqIds :
                 flight'[i] # flight[i] /\ flight[i].route \in DownloadRoutes)
             => cache' = cache)
       /\ \A i \in ReqIds :
            (/\ flight'[i] # flight[i]
             /\ resp'.id = i
             /\ resp'.route \in DownloadRoutes
             /\ resp'.admitted
             /\ (resp'.route = PEXELS_DL => HasParam(resp'.query, "url"))
             /\ KeyConfigured(resp'.route)) =>
              /\ ~resp'.hit
              /\ resp'.calls = 1
    ]_vars

\* C20, witness: a download has just been completed from its own upstream
\* call while the cache holds an entry.
C20_Witness ==
  /\ resp.route \in DownloadRoutes
  /\ resp.pc = "done"
  /\ resp.upstream = 200
  /\ resp.calls = 1
  /\ resp.out = resp.src
  /\ Cardinality(DOMAIN cache) = 1

\* C21: the step that serves a request from the cache leaves the cache as it
\* was, the entry's body and timestamp with it; and a search request whose
\* line was answered on a miss is served that entry exactly when it arrives
\* less than CACHE_TTL after the entry was stored, whatever hits came in
\* between.
C21_HitDoesNotRefreshTheEntry ==
  [][/\ resp'.hit =>
          /\ cache' = cache
          /\ LET key == CacheKey("GET", resp'.route, resp'.query)
             IN /\ cache'[key].timestamp = resp'.prev.at
                /\ cache'[key].data = resp'.body
     /\ (resp'.route \in SearchRoutes /\ resp'.admitted /\ resp'.prev.id # 0) =>
          (resp'.hit <=> resp'.at - resp'.prev.at < CACHE_TTL)
    ]_vars

\* C21, witness: an entry stored at 0 was served to request 1 at
\* RATE_LIMIT_WINDOW, and request 2 for the same line, arriving at CACHE_TTL,
\* has just missed and awaits upstream.
C21_Witness ==
  /\ resp.id = 2
  /\ resp.prev.id # 0
  /\ resp.prev.at = 0
  /\ resp.first = [id |-> 1, at |-> RATE_LIMIT_WINDOW]
  /\ flight[1].pc = "done"
  /\ resp.at = CACHE_TTL
  /\ ~resp.hit
  /\ resp.stale
  /\ resp.calls = 1

\* C22: a request the rate limiter rejects adds one to the client's count
\* and leaves resetTime as it was; and a request of a client that has a
\* counter, arriving strictly after resetTime, is admitted and leaves the
\* counter at count = 1 and resetTime = now + RATE_LIMIT_WINDOW, however far
\* over the limit the count had gone.
C22_RejectionsDoNotExtendTheLockout ==
  \A r \in Records :
    (r.id # 0 /\ r.was # NoCounter) =>
      /\ (~r.admitted =>
            r.rl = [count |-> r.was.count + 1, resetTime |-> r.was.resetTime])
      /\ (r.at > r.was.resetTime =>
            /\ r.admitted
            /\ r.rl = [count |-> 1, resetTime |-> r.at + RATE_LIMIT_WINDOW])

\* C22, witness: client ip1, whose count a rejected request had taken to
\* RATE_LIMIT_MAX + 1 with the window's resetTime unchanged, has just been
\* admitted after resetTime with a new window.
C22_Witness ==
  /\ resp.client = "ip1"
  /\ resp.was = [count |-> RATE_LIMIT_MAX + 1, resetTime |-> RATE_LIMIT_WINDOW]
  /\ resp.at > RATE_LIMIT_WINDOW
  /\ resp.admitted
  /\ resp.rl = [count |-> 1, resetTime |-> resp.at + RATE_LIMIT_WINDOW]

====
